---- MODULE Spec2Model ----
(***************************************************************************)
(* Model of the Bluetooth adapter interface of src/src/adapter.rs:         *)
(*   - the discovery session lifecycle (Adapter::discover_devices,         *)
(*     DeviceDiscovery::new and its detached cleanup task),                *)
(*   - the device and property event streams (Adapter::device_changes,     *)
(*     Adapter::changes),                                                  *)
(*   - the wire form of the discovery filter (DiscoveryFilter::to_dict).   *)
(*   - the parsers of object paths (Adapter::parse_dbus_path_prefix,       *)
(*     Adapter::parse_dbus_path), the construction of a handle             *)
(*     (Adapter::new) and the getters of the adapter's properties          *)
(*     (define_properties!).                                               *)
(* Each of them has its own specification (Spec, SpecFair and SpecLive,    *)
(* SpecEvents, SpecFilter, SpecPath, SpecName, SpecProps) over the one set *)
(* of variables; the variables of the others keep their initial values.    *)
(* A discover_devices call is polled until it returns: a caller dropping   *)
(* the future is not modelled.                                             *)
(***************************************************************************)
EXTENDS Integers, Sequences, FiniteSets, TLC

\* Number of discover_devices calls made in one behaviour.
MaxCalls == 3

Calls == 1..MaxCalls

\* No call: the mutex is free, or the map has no entry for the adapter.
NoCall == 0

\* Adapter names of the Adapter handles (and their clones) in use.
Adapters == {"hci0", "hci1"}

NoAdapter == "none"

VARIABLES
    pc,                  \* position of each discover_devices call
    adapter_name,        \* self.name of the handle each call is made on
    mutex,               \* holder of the lock on inner.discovery_slots
    discovery_slots,     \* adapter name -> call whose done_rx the map holds
    done_tx,             \* sender of the call's completion channel
    term_tx,             \* DeviceDiscovery._term_tx, i.e. the session handle
    task,                \* the detached cleanup task of the call's session
    result,              \* what the call returned
    nSetDiscoveryFilter, \* SetDiscoveryFilter requests sent by the call
    nStartDiscovery,     \* StartDiscovery requests sent by the call
    nStopDiscovery,      \* StopDiscovery requests sent by the call's task
    setReply,            \* the daemon's reply to SetDiscoveryFilter
    startReply,          \* the daemon's reply to StartDiscovery
    stopReply,           \* the daemon's reply to StopDiscovery
    my_name,             \* self.name of the handle the event streams are of
    objHist,             \* object signals the bus has delivered, in order
    objPending,          \* those the device_changes stream has not yet taken
    devEvents,           \* DeviceEvents the device_changes stream has yielded
    propHist,            \* property-changed signals the bus has delivered
    propPending,         \* those the forwarding task has not yet taken
    fwd_props,           \* properties left in the for loop of the forwarding task
    send_err,            \* a send of the forwarding task has failed
    chan,                \* content of the mpsc channel of changes()
    rx_alive,            \* the consumer still holds the stream of changes()
    changed,             \* AdapterChanged events the consumer has received
    filter,              \* the DiscoveryFilter given to discover_devices
    dict,                \* what to_dict made of it, once called
    in_path,             \* the object path given to the path parsers
    parsed,              \* what the path parsers returned, once called
    new_name,            \* the name given to Adapter::new
    adapter,             \* what Adapter::new returned, once called
    parsed_back,         \* what parsing the adapter's path gave, once parsed
    prop,                \* the adapter property a getter is called for
    wire,                \* the value the daemon holds for it, if any
    got                  \* what the getter returned, once called

discVars == <<pc, adapter_name, mutex, discovery_slots, done_tx, term_tx, task,
              result, nSetDiscoveryFilter, nStartDiscovery, nStopDiscovery,
              setReply, startReply, stopReply>>

evVars == <<my_name, objHist, objPending, devEvents, propHist, propPending,
            fwd_props, send_err, chan, rx_alive, changed>>

filterVars == <<filter, dict>>

pathVars == <<in_path, parsed, new_name, adapter, parsed_back>>

propVars == <<prop, wire, got>>

vars == <<discVars, evVars, filterVars, pathVars, propVars>>

ReplyOf(ok) == IF ok THEN "ok" ELSE "err"

-----------------------------------------------------------------------------
(* Discovery sessions *)

InitDiscovery ==
    /\ pc = [k \in Calls |-> "notcalled"]
    /\ adapter_name = [k \in Calls |-> NoAdapter]
    /\ mutex = NoCall
    /\ discovery_slots = [a \in Adapters |-> NoCall]
    /\ done_tx = [k \in Calls |-> "none"]
    /\ term_tx = [k \in Calls |-> "none"]
    /\ task = [k \in Calls |-> "none"]
    /\ result = [k \in Calls |-> "pending"]
    /\ nSetDiscoveryFilter = [k \in Calls |-> 0]
    /\ nStartDiscovery = [k \in Calls |-> 0]
    /\ nStopDiscovery = [k \in Calls |-> 0]
    /\ setReply = [k \in Calls |-> "none"]
    /\ startReply = [k \in Calls |-> "none"]
    /\ stopReply = [k \in Calls |-> "none"]

\* oneshot::Receiver::try_recv on the completion channel of call k: Ok(None)
\* while the sender lives (nothing is ever sent on it), Err(Canceled) once the
\* sender is dropped.
try_recv(k) == IF done_tx[k] = "alive" THEN "OkNone" ELSE "ErrCanceled"

\* The entry test with the two outcomes of try_recv confused.
slot_in_progress_inverted(a) ==
    /\ discovery_slots[a] # NoCall
    /\ try_recv(discovery_slots[a]) = "ErrCanceled"

\* Any entry counts as a discovery in progress.
slot_in_progress_any_entry(a) == discovery_slots[a] # NoCall

\* The test of discover_devices on the adapter's entry: an entry exists and
\* its receiver reads Ok(None).
slot_in_progress(a) ==
    /\ discovery_slots[a] # NoCall
    /\ try_recv(discovery_slots[a]) = "OkNone"

\* A failed method call is sent again instead of being returned.
try_op_retry(ok, cont) == IF ok THEN cont ELSE "SetDiscoveryFilter"

\* The error of a method call is ignored.
try_op_ignore(ok, cont) == cont

\* The `?` on a method call's reply: go on with cont, or return the error.
try_op(ok, cont) == IF ok THEN cont ELSE "returned"

\* The cleanup task does not wait for the handle to be dropped.
term_rx_ready_at_once(k) == TRUE

\* term_rx.await of the cleanup task resolves once _term_tx is dropped.
term_rx_ready(k) == term_tx[k] = "dropped"

\* _done_tx outlives the cleanup task when StopDiscovery failed.
cleanup_done_tx_on_success(k, ok) == IF ok THEN "dropped" ELSE "alive"

\* _done_tx is a local of the cleanup task: it is dropped when the task ends,
\* whatever StopDiscovery replied.
cleanup_done_tx(k, ok) == "dropped"

\* discovery_slots.remove(name): the map without the adapter's entry.
remove(slots, a) == [slots EXCEPT ![a] = NoCall]

\* The receiver taken out of the map is not put back.
reinsert_forgotten(slots, a, rx) == slots

\* discovery_slots.insert(self.name.clone(), rx)
reinsert(slots, a, rx) == [slots EXCEPT ![a] = rx]

\* `let _ = done_tx;` would drop the sender as soon as the task starts.
spawned_done_tx_discarded(k) == "dropped"

\* `let _done_tx = done_tx;` binds the sender to a local of the cleanup task,
\* where it lives as long as the task runs.
spawned_done_tx(k) == done_tx[k]

\* One entry is shared by the adapters.
slot_key_shared(k) == "hci0"

\* The key of the call's entry in discovery_slots: self.name.
slot_key(k) == adapter_name[k]

\* The sender outlives the failed call.
returned_done_tx_kept(k) == done_tx[k]

\* done_tx is an argument of DeviceDiscovery::new: an early return through
\* `?` drops it.
returned_done_tx(k) == "dropped"

\* The guard is kept after the call returned.
unlock_forgotten(k) == mutex

\* The guard of the lock, a local of discover_devices, is dropped when the
\* function returns.
unlock(k) == IF mutex = k THEN NoCall ELSE mutex

\* A caller invokes discover_devices on a handle of adapter a and starts
\* waiting for the lock. Calls are numbered in the order they are made.
discover_devices(k, a) ==
    /\ pc[k] = "notcalled"
    /\ \A j \in Calls : j < k => pc[j] # "notcalled"
    /\ pc' = [pc EXCEPT ![k] = "lock"]
    /\ adapter_name' = [adapter_name EXCEPT ![k] = a]
    /\ UNCHANGED <<mutex, discovery_slots, done_tx, term_tx, task, result,
                   nSetDiscoveryFilter, nStartDiscovery, nStopDiscovery,
                   setReply, startReply, stopReply>>
    /\ UNCHANGED <<evVars, filterVars, pathVars, propVars>>

\* self.inner.discovery_slots.lock().await
lock(k) ==
    /\ pc[k] = "lock"
    /\ mutex = NoCall
    /\ mutex' = k
    /\ pc' = [pc EXCEPT ![k] = "check"]
    /\ UNCHANGED <<adapter_name, discovery_slots, done_tx, term_tx, task, result,
                   nSetDiscoveryFilter, nStartDiscovery, nStopDiscovery,
                   setReply, startReply, stopReply>>
    /\ UNCHANGED <<evVars, filterVars, pathVars, propVars>>

\* The check of the adapter's entry and the insertion of a fresh receiver.
\* The guard of the lock is a local of discover_devices: it is released when
\* the function returns.
check_slot(k) ==
    /\ pc[k] = "check"
    /\ mutex = k
    /\ IF slot_in_progress(slot_key(k))
       THEN /\ result' = [result EXCEPT ![k] = "AnotherDiscoveryInProgress"]
            /\ pc' = [pc EXCEPT ![k] = "returned"]
            /\ mutex' = unlock(k)
            /\ discovery_slots' =
                   reinsert(remove(discovery_slots, slot_key(k)),
                            slot_key(k), discovery_slots[slot_key(k)])
            /\ UNCHANGED done_tx
       ELSE /\ done_tx' = [done_tx EXCEPT ![k] = "alive"]
            /\ discovery_slots' = [discovery_slots EXCEPT ![slot_key(k)] = k]
            /\ pc' = [pc EXCEPT ![k] = "SetDiscoveryFilter"]
            /\ UNCHANGED <<result, mutex>>
    /\ UNCHANGED <<adapter_name, term_tx, task,
                   nSetDiscoveryFilter, nStartDiscovery, nStopDiscovery,
                   setReply, startReply, stopReply>>
    /\ UNCHANGED <<evVars, filterVars, pathVars, propVars>>

\* The effects of DeviceDiscovery::new returning an error to discover_devices,
\* which returns it: done_tx is dropped with the arguments, the lock released.
ReturnError(k, err) ==
    /\ result' = [result EXCEPT ![k] = err]
    /\ done_tx' = [done_tx EXCEPT ![k] = returned_done_tx(k)]
    /\ mutex' = unlock(k)
    /\ pc' = [pc EXCEPT ![k] = "returned"]

\* proxy.method_call(INTERFACE, "SetDiscoveryFilter", ..) is sent.
SetDiscoveryFilter(k) ==
    /\ pc[k] = "SetDiscoveryFilter"
    /\ nSetDiscoveryFilter' = [nSetDiscoveryFilter EXCEPT ![k] = @ + 1]
    /\ pc' = [pc EXCEPT ![k] = "SetDiscoveryFilterWait"]
    /\ UNCHANGED <<adapter_name, mutex, discovery_slots, done_tx, term_tx, task,
                   result, nStartDiscovery, nStopDiscovery,
                   setReply, startReply, stopReply>>
    /\ UNCHANGED <<evVars, filterVars, pathVars, propVars>>

\* The reply to SetDiscoveryFilter (an error reply or the time-out when ~ok).
SetDiscoveryFilterReply(k, ok) ==
    /\ pc[k] = "SetDiscoveryFilterWait"
    /\ setReply' = [setReply EXCEPT ![k] = ReplyOf(ok)]
    /\ LET nxt == try_op(ok, "StartDiscovery") IN
       IF nxt = "returned"
       THEN ReturnError(k, "SetDiscoveryFilterError")
       ELSE /\ pc' = [pc EXCEPT ![k] = nxt]
            /\ UNCHANGED <<result, done_tx, mutex>>
    /\ UNCHANGED <<adapter_name, discovery_slots, term_tx, task,
                   nSetDiscoveryFilter, nStartDiscovery, nStopDiscovery,
                   startReply, stopReply>>
    /\ UNCHANGED <<evVars, filterVars, pathVars, propVars>>

\* proxy.method_call(INTERFACE, "StartDiscovery", ()) is sent.
StartDiscovery(k) ==
    /\ pc[k] = "StartDiscovery"
    /\ nStartDiscovery' = [nStartDiscovery EXCEPT ![k] = @ + 1]
    /\ pc' = [pc EXCEPT ![k] = "StartDiscoveryWait"]
    /\ UNCHANGED <<adapter_name, mutex, discovery_slots, done_tx, term_tx, task,
                   result, nSetDiscoveryFilter, nStopDiscovery,
                   setReply, startReply, stopReply>>
    /\ UNCHANGED <<evVars, filterVars, pathVars, propVars>>

\* The reply to StartDiscovery. On success the cleanup task is spawned with
\* done_tx and term_rx moved into it, and the handle holding term_tx is
\* returned through discover_devices, which releases the lock.
StartDiscoveryReply(k, ok) ==
    /\ pc[k] = "StartDiscoveryWait"
    /\ startReply' = [startReply EXCEPT ![k] = ReplyOf(ok)]
    /\ LET nxt == try_op(ok, "spawn") IN
       IF nxt = "returned"
       THEN /\ ReturnError(k, "StartDiscoveryError")
            /\ UNCHANGED <<term_tx, task>>
       ELSE IF nxt = "spawn"
       THEN /\ task' = [task EXCEPT ![k] = "waiting"]
            /\ term_tx' = [term_tx EXCEPT ![k] = "held"]
            /\ result' = [result EXCEPT ![k] = "handle"]
            /\ mutex' = unlock(k)
            /\ pc' = [pc EXCEPT ![k] = "returned"]
            /\ done_tx' = [done_tx EXCEPT ![k] = spawned_done_tx(k)]
       ELSE /\ pc' = [pc EXCEPT ![k] = nxt]
            /\ UNCHANGED <<result, done_tx, mutex, term_tx, task>>
    /\ UNCHANGED <<adapter_name, discovery_slots,
                   nSetDiscoveryFilter, nStartDiscovery, nStopDiscovery,
                   setReply, stopReply>>
    /\ UNCHANGED <<evVars, filterVars, pathVars, propVars>>

\* The owner drops the DeviceDiscovery handle, and _term_tx with it.
drop(k) ==
    /\ term_tx[k] = "held"
    /\ term_tx' = [term_tx EXCEPT ![k] = "dropped"]
    /\ UNCHANGED <<pc, adapter_name, mutex, discovery_slots, done_tx, task, result,
                   nSetDiscoveryFilter, nStartDiscovery, nStopDiscovery,
                   setReply, startReply, stopReply>>
    /\ UNCHANGED <<evVars, filterVars, pathVars, propVars>>

\* The cleanup task gets past term_rx.await and sends StopDiscovery.
StopDiscovery(k) ==
    /\ task[k] = "waiting"
    /\ term_rx_ready(k)
    /\ nStopDiscovery' = [nStopDiscovery EXCEPT ![k] = @ + 1]
    /\ task' = [task EXCEPT ![k] = "StopDiscovery"]
    /\ UNCHANGED <<pc, adapter_name, mutex, discovery_slots, done_tx, term_tx,
                   result, nSetDiscoveryFilter, nStartDiscovery,
                   setReply, startReply, stopReply>>
    /\ UNCHANGED <<evVars, filterVars, pathVars, propVars>>

\* The reply to StopDiscovery is assigned to `_` and the task ends, which
\* drops its locals.
StopDiscoveryReply(k, ok) ==
    /\ task[k] = "StopDiscovery"
    /\ stopReply' = [stopReply EXCEPT ![k] = ReplyOf(ok)]
    /\ done_tx' = [done_tx EXCEPT ![k] = cleanup_done_tx(k, ok)]
    /\ task' = [task EXCEPT ![k] = "finished"]
    /\ UNCHANGED <<pc, adapter_name, mutex, discovery_slots, term_tx, result,
                   nSetDiscoveryFilter, nStartDiscovery, nStopDiscovery,
                   setReply, startReply>>
    /\ UNCHANGED <<evVars, filterVars, pathVars, propVars>>

NextDiscovery ==
    \/ \E k \in Calls, a \in Adapters : discover_devices(k, a)
    \/ \E k \in Calls : lock(k)
    \/ \E k \in Calls : check_slot(k)
    \/ \E k \in Calls : SetDiscoveryFilter(k)
    \/ \E k \in Calls, ok \in BOOLEAN : SetDiscoveryFilterReply(k, ok)
    \/ \E k \in Calls : StartDiscovery(k)
    \/ \E k \in Calls, ok \in BOOLEAN : StartDiscoveryReply(k, ok)
    \/ \E k \in Calls : drop(k)
    \/ \E k \in Calls : StopDiscovery(k)
    \/ \E k \in Calls, ok \in BOOLEAN : StopDiscoveryReply(k, ok)

-----------------------------------------------------------------------------
(* Strings and object paths. A string is the sequence of its characters; an
   Option is <<>> for None and <<x>> for Some(x). *)

\* Number of signals the bus delivers in one behaviour.
MaxSignals == 3

Min(S) == CHOOSE x \in S : \A y \in S : x <= y

starts_with(s, p) == Len(s) >= Len(p) /\ SubSeq(s, 1, Len(p)) = p

\* str::strip_prefix
strip_prefix(s, p) ==
    IF starts_with(s, p) THEN <<SubSeq(s, Len(p) + 1, Len(s))>> ELSE <<>>

\* str::find of a character: the offset of its first occurrence, from 0.
find(s, c) ==
    LET at == {i \in 1..Len(s) : s[i] = c}
    IN  IF at = {} THEN <<>> ELSE <<Min(at) - 1>>

PREFIX == <<"/", "o", "r", "g", "/", "b", "l", "u", "e", "z", "/">>

\* The characters of the adapter names.
NameChars ==
    [a \in Adapters |->
        IF a = "hci0" THEN <<"h", "c", "i", "0">> ELSE <<"h", "c", "i", "1">>]

\* Adapter::dbus_path: the prefix and the name.
dbus_path(a) == PREFIX \o NameChars[a]

\* What stands for the panic of a slice whose range is not within the string;
\* it is no string of characters.
Panic == <<"panic">>

\* &s[from..to], with offsets from 0.
slice(s, from, to) ==
    IF from <= to /\ to <= Len(s) THEN SubSeq(s, from + 1, to) ELSE Panic

\* The remainder is taken from behind the separator.
parse_dbus_path_prefix_behind_sep(path) ==
    LET sp == strip_prefix(path, PREFIX)
    IN  IF sp = <<>> THEN <<>>
        ELSE LET p == sp[1]
                 f == find(p, "/")
                 sep == IF f = <<>> THEN Len(p) ELSE f[1]
             IN  << <<slice(p, 0, sep), slice(p, sep + 1, Len(p))>> >>

\* Adapter::parse_dbus_path_prefix: the segment after PREFIX and what follows it.
parse_dbus_path_prefix(path) ==
    LET sp == strip_prefix(path, PREFIX)
    IN  IF sp = <<>> THEN <<>>
        ELSE LET p == sp[1]
                 f == find(p, "/")
                 sep == IF f = <<>> THEN Len(p) ELSE f[1]
             IN  << <<slice(p, 0, sep), slice(p, sep, Len(p))>> >>

\* Adapter::parse_dbus_path: the segment when nothing follows it.
parse_dbus_path(path) ==
    LET r == parse_dbus_path_prefix(path)
    IN  IF r # <<>> /\ r[1][2] = <<>> THEN <<r[1][1]>> ELSE <<>>

HexDigits == <<"0", "1", "2", "3", "4", "5", "6", "7",
               "8", "9", "A", "B", "C", "D", "E", "F">>

IsHex(c) == \E i \in 1..Len(HexDigits) : HexDigits[i] = c

HexValue(c) == (CHOOSE i \in 1..Len(HexDigits) : HexDigits[i] = c) - 1

HexText(b) == <<HexDigits[(b \div 16) + 1], HexDigits[(b % 16) + 1]>>

\* An address is its six bytes.
AddressBytes == 6

DEVICE_PREFIX == <<"/", "d", "e", "v", "_">>

\* The text of an address in a device path: six pairs of hexadecimal digits
\* separated by '_'.
address_text(addr) ==
    HexText(addr[1]) \o <<"_">> \o HexText(addr[2]) \o <<"_">> \o
    HexText(addr[3]) \o <<"_">> \o HexText(addr[4]) \o <<"_">> \o
    HexText(addr[5]) \o <<"_">> \o HexText(addr[6])

\* The address a text of exactly that shape stands for, none for any other.
parse_address(t) ==
    IF /\ Len(t) = 3 * AddressBytes - 1
       /\ \A i \in 1..Len(t) : IF i % 3 = 0 THEN t[i] = "_" ELSE IsHex(t[i])
    THEN <<[i \in 1..AddressBytes |->
               16 * HexValue(t[3 * i - 2]) + HexValue(t[3 * i - 1])]>>
    ELSE <<>>

\* Device::dbus_path: <adapter path>/dev_<address with the separators replaced>.
Device_dbus_path(a, addr) == dbus_path(a) \o DEVICE_PREFIX \o address_text(addr)

\* Device::parse_dbus_path: the adapter name and the address of a path of
\* exactly that shape, none for any other path.
Device_parse_dbus_path(path) ==
    LET r == parse_dbus_path_prefix(path)
    IN  IF r = <<>> THEN <<>>
        ELSE LET d == strip_prefix(r[1][2], DEVICE_PREFIX)
             IN  IF d = <<>> THEN <<>>
                 ELSE LET addr == parse_address(d[1])
                      IN  IF addr = <<>> THEN <<>>
                          ELSE << <<r[1][1], addr[1]>> >>

-----------------------------------------------------------------------------
(* Event streams *)

SampleAddresses ==
    { <<170, 187, 204, 221, 238, 255>>,      \* AA:BB:CC:DD:EE:FF
      <<0, 17, 34, 51, 68, 85>> }            \* 00:11:22:33:44:55

\* Object paths that are no device path: an adapter, an object below a
\* device, a device name with a short address, an object of another service.
OtherPaths ==
    { dbus_path("hci0"),
      Device_dbus_path("hci0", <<170, 187, 204, 221, 238, 255>>)
          \o <<"/", "s", "0">>,
      dbus_path("hci0") \o DEVICE_PREFIX \o <<"A", "A", "_", "B", "B">>,
      <<"/", "o", "r", "g", "/", "x">> }

SamplePaths ==
    {Device_dbus_path(a, addr) : a \in Adapters, addr \in SampleAddresses}
        \cup OtherPaths

\* ObjectEvent::Added { object, .. } and ObjectEvent::Removed { object, .. }
ObjectEvents ==
    [type : {"Added"}, object : SamplePaths]
        \cup [type : {"Removed"},
              object : {Device_dbus_path(a, <<170, 187, 204, 221, 238, 255>>) :
                            a \in Adapters}]

\* The properties define_properties! declares for the adapter: the name on
\* the bus, the variant of AdapterProperty and whether it must be present.
AdapterProperties ==
    { <<"Address", "Address", "MANDATORY">>,
      <<"AddressType", "AddressType", "MANDATORY">>,
      <<"Name", "SystemName", "MANDATORY">>,
      <<"Alias", "Alias", "MANDATORY">>,
      <<"Class", "Class", "MANDATORY">>,
      <<"Powered", "Powered", "MANDATORY">>,
      <<"Discoverable", "Discoverable", "MANDATORY">>,
      <<"Pairable", "Pairable", "MANDATORY">>,
      <<"PairableTimeout", "PairableTimeout", "MANDATORY">>,
      <<"DiscoverableTimeout", "DiscoverableTimeout", "MANDATORY">>,
      <<"Discovering", "Discovering", "MANDATORY">>,
      <<"UUIDs", "Uuids", "OPTIONAL">>,
      <<"Modalias", "Modalias", "OPTIONAL">>,
      <<"ActiveInstances", "ActiveAdvertisingInstances", "MANDATORY">>,
      <<"SupportedInstances", "SupportedAdvertisingInstances", "MANDATORY">>,
      <<"SupportedIncludes", "SupportedAdvertisingSystemIncludes", "MANDATORY">>,
      <<"SupportedSecondaryChannels", "SupportedAdvertisingSecondaryChannels",
        "MANDATORY">>,
      <<"SupportedCapabilities", "SupportedAdvertisingCapabilities", "OPTIONAL">>,
      <<"SupportedFeatures", "SupportedAdvertisingFeatures", "OPTIONAL">> }

DeclaredKeys == {p[1] : p \in AdapterProperties}

VariantOf(key) == (CHOOSE p \in AdapterProperties : p[1] = key)[2]

\* PropertyEvent.changed of the sample signals: the keys of the change set.
\* "Roles" and "ExperimentalFeatures" are not declared.
SampleChanges ==
    { <<"Powered">>,
      <<"Roles">>,
      <<"Discovering", "ExperimentalFeatures", "Name">> }

\* AdapterProperty::from_prop_map: the declared keys of a change set, decoded,
\* in the order of the change set; the others are skipped.
RECURSIVE from_prop_map(_)
from_prop_map(cs) ==
    IF cs = <<>> THEN <<>>
    ELSE (IF Head(cs) \in DeclaredKeys THEN <<VariantOf(Head(cs))>> ELSE <<>>)
             \o from_prop_map(Tail(cs))

InitEvents ==
    /\ objHist = <<>>
    /\ objPending = <<>>
    /\ devEvents = <<>>
    /\ propHist = <<>>
    /\ propPending = <<>>
    /\ fwd_props = <<>>
    /\ send_err = FALSE
    /\ chan = <<>>
    /\ rx_alive = TRUE
    /\ changed = <<>>

\* The closure of device_changes that does not compare the adapter name.
device_changes_filter_map_any_adapter(name, evt) ==
    LET d == Device_parse_dbus_path(evt.object)
    IN  IF d # <<>>
        THEN <<[type |-> evt.type, address |-> d[1][2]]>>
        ELSE <<>>

\* The closure given to filter_map in device_changes: the DeviceEvent of an
\* object event, if any.
device_changes_filter_map(name, evt) ==
    LET d == Device_parse_dbus_path(evt.object)
    IN  IF evt.type = "Added"
        THEN IF d # <<>> /\ d[1][1] = NameChars[name]
             THEN <<[type |-> "Added", address |-> d[1][2]]>>
             ELSE <<>>
        ELSE IF d # <<>> /\ d[1][1] = NameChars[name]
             THEN <<[type |-> "Removed", address |-> d[1][2]]>>
             ELSE <<>>

\* The forwarding task sends at the front of the channel.
tx_send_front(c, name, property) ==
    <<[name |-> name, property |-> property]>> \o c

\* The change is sent without the name of the adapter.
tx_send_unnamed(c, name, property) ==
    Append(c, [name |-> NoAdapter, property |-> property])

\* tx.send(AdapterChanged { name, property }) on the unbounded channel.
tx_send(c, name, property) ==
    Append(c, [name |-> name, property |-> property])

\* The bus delivers an object-added or object-removed signal.
object_signal(evt) ==
    /\ Len(objHist) + Len(propHist) < MaxSignals
    /\ objHist' = Append(objHist, evt)
    /\ objPending' = Append(objPending, evt)
    /\ UNCHANGED <<my_name, devEvents, propHist, propPending, fwd_props, chan,
                   rx_alive, changed>>
    /\ UNCHANGED send_err
    /\ UNCHANGED <<discVars, filterVars, pathVars, propVars>>

\* The consumer polls the stream of device_changes, which takes the next
\* object event and yields what the closure makes of it.
device_changes_next ==
    /\ objPending # <<>>
    /\ objPending' = Tail(objPending)
    /\ devEvents' = devEvents \o device_changes_filter_map(my_name, Head(objPending))
    /\ UNCHANGED <<my_name, objHist, propHist, propPending, fwd_props, chan,
                   rx_alive, changed>>
    /\ UNCHANGED send_err
    /\ UNCHANGED <<discVars, filterVars, pathVars, propVars>>

\* The bus delivers a property-changed signal of the adapter's path.
property_signal(cs) ==
    /\ Len(objHist) + Len(propHist) < MaxSignals
    /\ propHist' = Append(propHist, cs)
    /\ propPending' = Append(propPending, cs)
    /\ UNCHANGED <<my_name, objHist, objPending, devEvents, fwd_props, chan,
                   rx_alive, changed>>
    /\ UNCHANGED send_err
    /\ UNCHANGED <<discVars, filterVars, pathVars, propVars>>

\* The forwarding task of changes(): events.next().await yields an event and
\* the for loop over from_prop_map(event.changed) starts.
forward_next ==
    /\ fwd_props = <<>>
    /\ propPending # <<>>
    /\ propPending' = Tail(propPending)
    /\ fwd_props' = from_prop_map(Head(propPending))
    /\ UNCHANGED <<my_name, objHist, objPending, devEvents, propHist, chan,
                   rx_alive, changed>>
    /\ UNCHANGED send_err
    /\ UNCHANGED <<discVars, filterVars, pathVars, propVars>>

\* One turn of the for loop: the send fails once the receiver is dropped, and
\* the break leaves the for loop.
forward_send ==
    /\ fwd_props # <<>>
    /\ IF rx_alive
       THEN /\ chan' = tx_send(chan, my_name, Head(fwd_props))
            /\ fwd_props' = Tail(fwd_props)
            /\ UNCHANGED send_err
       ELSE /\ fwd_props' = <<>>
            /\ send_err' = TRUE
            /\ UNCHANGED chan
    /\ UNCHANGED <<my_name, objHist, objPending, devEvents, propHist, propPending,
                   rx_alive, changed>>
    /\ UNCHANGED <<discVars, filterVars, pathVars, propVars>>

\* The consumer takes the next AdapterChanged from the stream of changes().
changes_next ==
    /\ rx_alive
    /\ chan # <<>>
    /\ changed' = Append(changed, Head(chan))
    /\ chan' = Tail(chan)
    /\ UNCHANGED <<my_name, objHist, objPending, devEvents, propHist, propPending,
                   fwd_props, rx_alive>>
    /\ UNCHANGED send_err
    /\ UNCHANGED <<discVars, filterVars, pathVars, propVars>>

\* The consumer drops the stream of changes(), and what it still buffered.
changes_drop ==
    /\ rx_alive
    /\ rx_alive' = FALSE
    /\ chan' = <<>>
    /\ UNCHANGED <<my_name, objHist, objPending, devEvents, propHist, propPending,
                   fwd_props, changed>>
    /\ UNCHANGED send_err
    /\ UNCHANGED <<discVars, filterVars, pathVars, propVars>>

NextEvents ==
    \/ \E evt \in ObjectEvents : object_signal(evt)
    \/ device_changes_next
    \/ \E cs \in SampleChanges : property_signal(cs)
    \/ forward_next
    \/ forward_send
    \/ changes_next
    \/ changes_drop

-----------------------------------------------------------------------------
(* The discovery filter *)

SampleUuids == {"battery", "device_information"}

\* Uuid::to_string: the hyphenated text.
uuid_to_string(u) ==
    IF u = "battery" THEN "0000180f-0000-1000-8000-00805f9b34fb"
    ELSE "0000180a-0000-1000-8000-00805f9b34fb"

\* DiscoveryTransport's Display: the strum serialisations.
transport_to_string(t) ==
    IF t = "Auto" THEN "auto" ELSE IF t = "BrEdr" THEN "bredr" ELSE "le"

DiscoveryFilters ==
    [uuids : SUBSET SampleUuids,
     rssi : {<<>>, <<-70>>, <<0>>},
     pathloss : {<<>>, <<0>>, <<60>>},
     transport : {"Auto", "BrEdr", "Le"},
     duplicate_data : BOOLEAN,
     discoverable : BOOLEAN,
     pattern : {<<>>, <<"">>, <<"AA">>}]

\* DiscoveryFilter::default
DefaultFilter ==
    [uuids |-> {}, rssi |-> <<>>, pathloss |-> <<>>, transport |-> "Auto",
     duplicate_data |-> TRUE, discoverable |-> FALSE, pattern |-> <<>>]

\* The orders in which a HashSet may be iterated.
Orders(S) ==
    {o \in [1..Cardinality(S) -> S] : {o[i] : i \in 1..Cardinality(S)} = S}

\* HashMap::insert
insert(hm, key, value) ==
    [x \in DOMAIN hm \cup {key} |-> IF x = key THEN value ELSE hm[x]]

\* An unset optional field is sent as zero.
insert_some_or_zero(hm, key, opt) ==
    IF opt # <<>> THEN insert(hm, key, opt[1]) ELSE insert(hm, key, 0)

\* if let Some(v) = field { hm.insert(key, v) }
insert_some(hm, key, opt) ==
    IF opt # <<>> THEN insert(hm, key, opt[1]) ELSE hm

\* DiscoveryFilter::to_dict, with the order in which uuids is iterated.
to_dict(f, order) ==
    LET hm0 == [x \in {} |-> 0]
        hm1 == insert(hm0, "UUIDs",
                      [i \in 1..Len(order) |-> uuid_to_string(order[i])])
        hm2 == insert_some(hm1, "RSSI", f.rssi)
        hm3 == insert_some(hm2, "Pathloss", f.pathloss)
        hm4 == insert(hm3, "Transport", transport_to_string(f.transport))
        hm5 == insert(hm4, "DuplicateData", f.duplicate_data)
        hm6 == insert(hm5, "Discoverable", f.discoverable)
    IN  insert_some(hm6, "Pattern", f.pattern)

\* filter.to_dict() for the argument of SetDiscoveryFilter.
filter_to_dict ==
    /\ dict = <<>>
    /\ \E order \in Orders(filter.uuids) : dict' = <<to_dict(filter, order)>>
    /\ UNCHANGED filter
    /\ UNCHANGED <<discVars, evVars, pathVars, propVars>>

InitFilterIdle == filter = DefaultFilter /\ dict = <<>>

-----------------------------------------------------------------------------
(* The path parsers *)

\* Length of what follows the prefix in the paths parsed.
MaxTail == 3

PathChars == {"/", "h", "_"}

Strings(n) == UNION {[1..m -> PathChars] : m \in 0..n}

\* Paths under PREFIX, and paths that are not: short ones, the beginnings of
\* PREFIX, and paths under a prefix that differs in one character.
PathInputs ==
    {PREFIX \o t : t \in Strings(MaxTail)}
        \cup Strings(MaxTail)
        \cup {SubSeq(PREFIX, 1, i) : i \in 0..(Len(PREFIX) - 1)}
        \cup {<<"/", "o", "r", "g", "/", "b", "l", "u", "e", "x", "/">> \o t :
                  t \in Strings(MaxTail)}

\* Both parsers are called on the path.
parse_path ==
    /\ parsed = <<>>
    /\ parsed' = <<[prefix |-> parse_dbus_path_prefix(in_path),
                    exact |-> parse_dbus_path(in_path)]>>
    /\ UNCHANGED <<in_path, new_name, adapter, parsed_back>>
    /\ UNCHANGED <<discVars, evVars, filterVars, propVars>>

\* Length of the names given to Adapter::new, but for the sample names.
MaxName == 3

\* 'h' and '0' may stand in an element of an object path, '-' may not.
NameAlphabet == {"h", "0", "/", "-"}

\* The characters of the elements of an object path: [A-Z][a-z][0-9]_
ElementChars ==
    {"A", "B", "C", "D", "E", "F", "G", "H", "I", "J", "K", "L", "M", "N", "O",
     "P", "Q", "R", "S", "T", "U", "V", "W", "X", "Y", "Z",
     "a", "b", "c", "d", "e", "f", "g", "h", "i", "j", "k", "l", "m", "n", "o",
     "p", "q", "r", "s", "t", "u", "v", "w", "x", "y", "z",
     "0", "1", "2", "3", "4", "5", "6", "7", "8", "9", "_"}

\* dbus::Path::new: the string when it is a valid object path, which starts
\* with '/', has non-empty elements of ElementChars separated by single '/'
\* and, unless it is "/", does not end with '/'; none otherwise.
Path_new(str) ==
    IF /\ Len(str) >= 1
       /\ str[1] = "/"
       /\ Len(str) > 1 => str[Len(str)] # "/"
       /\ \A i \in 1..Len(str) : str[i] = "/" \/ str[i] \in ElementChars
       /\ \A i \in 1..(Len(str) - 1) : ~(str[i] = "/" /\ str[i + 1] = "/")
    THEN <<str>>
    ELSE <<>>

\* Adapter::new: the handle with the path PREFIX + name when that is a valid
\* object path, Error::InvalidName(name) otherwise.
Adapter_new(name) ==
    IF Path_new(PREFIX \o name) = <<>>
    THEN [ok |-> FALSE, err |-> <<"InvalidName", name>>]
    ELSE [ok |-> TRUE, dbus_path |-> Path_new(PREFIX \o name)[1], name |-> name]

\* The names given to Adapter::new: the short strings of NameAlphabet, the
\* names of the adapters, and the name of an adapter followed by what
\* follows it in the path of a device.
NameInputs ==
    UNION {[1..n -> NameAlphabet] : n \in 0..MaxName}
        \cup {NameChars[a] : a \in Adapters}
        \cup {NameChars[a] \o DEVICE_PREFIX \o address_text(addr) :
                  a \in Adapters, addr \in SampleAddresses}

\* Adapter::new is called with the name.
new ==
    /\ adapter = <<>>
    /\ adapter' = <<Adapter_new(new_name)>>
    /\ UNCHANGED <<in_path, parsed, new_name, parsed_back>>
    /\ UNCHANGED <<discVars, evVars, filterVars, propVars>>

\* The path of the handle is parsed, as an adapter's and as a device's.
parse_adapter_path ==
    /\ adapter # <<>>
    /\ adapter[1].ok
    /\ parsed_back = <<>>
    /\ parsed_back' = <<[adapter |-> parse_dbus_path(adapter[1].dbus_path),
                         device |-> Device_parse_dbus_path(adapter[1].dbus_path)]>>
    /\ UNCHANGED <<in_path, parsed, new_name, adapter>>
    /\ UNCHANGED <<discVars, evVars, filterVars, propVars>>

InitNameIdle == new_name = <<>> /\ adapter = <<>> /\ parsed_back = <<>>

InitPathIdle == in_path = PREFIX /\ parsed = <<>> /\ InitNameIdle

InitPropsIdle == prop = "Address" /\ wire = <<>> /\ got = <<>>

-----------------------------------------------------------------------------
(* The property getters *)

\* Number of strings in a list-valued property read.
MaxItems == 2

\* The strings read as a property value or as an item of one: "a" parses into
\* the declared type, "?" and "!" do not.
WireStrings == {"a", "?", "!"}

\* str::parse into the declared type: the parsed value, or none.
parse(str) == IF str \in {"?", "!"} THEN <<>> ELSE << <<"parsed", str>> >>

Ok(v) == [tag |-> "Ok", val |-> v]

Err(kind, v) == [tag |-> "Err", val |-> <<kind, v>>]

\* The get closure of the property: how the value read is decoded.
decode_kind(key) ==
    CASE key \in {"Address", "AddressType", "Modalias"} -> "parse"
      [] key = "UUIDs" -> "uuids"
      [] key \in {"SupportedIncludes", "SupportedSecondaryChannels",
                  "SupportedFeatures"} -> "filter_map"
      [] key = "SupportedCapabilities" -> "from_dict"
      [] OTHER -> "to_owned"

\* The values a read of the property may deliver.
WireValues(key) ==
    CASE decode_kind(key) \in {"uuids", "filter_map"} ->
             UNION {[1..n -> WireStrings] : n \in 0..MaxItems}
      [] decode_kind(key) = "to_owned" -> {"0", "1"}
      [] OTHER -> WireStrings

\* MANDATORY or OPTIONAL, as the property is declared.
requirement_all_optional(key) == "OPTIONAL"

requirement(key) == (CHOOSE p \in AdapterProperties : p[1] = key)[3]

\* v.parse()? : the error of the parser, which names the string.
parse_or_err(v) ==
    IF parse(v) = <<>> THEN Err("Parse", v) ELSE Ok(parse(v)[1])

\* The items that do not parse, by position.
bad_items(v) == {i \in 1..Len(v) : parse(v[i]) = <<>>}

\* collect::<Result<HashSet<Uuid>>>()? : the first item that does not parse
\* ends the decoding with InvalidUuid.
collect_uuids(v) ==
    IF bad_items(v) = {}
    THEN Ok({parse(v[i])[1] : i \in 1..Len(v)})
    ELSE Err("InvalidUuid", v[Min(bad_items(v))])

\* v.iter().filter_map(|s| s.parse().ok()).collect()
filter_map_collect(v) ==
    Ok({parse(v[i])[1] : i \in (1..Len(v)) \ bad_items(v)})

\* LeAdvertisingCapabilities::from_dict(v)?
from_dict(v) == parse_or_err(v)

\* The get closure applied to a value read.
get_closure(key, v) ==
    CASE decode_kind(key) = "parse" -> parse_or_err(v)
      [] decode_kind(key) = "uuids" -> collect_uuids(v)
      [] decode_kind(key) = "filter_map" -> filter_map_collect(v)
      [] decode_kind(key) = "from_dict" -> from_dict(v)
      [] OTHER -> Ok(v)

\* The getter the macro generates: an absent value is an error for a
\* MANDATORY property and "not present" for an OPTIONAL one.
get_property(key, w) ==
    IF w = <<>>
    THEN IF requirement(key) = "MANDATORY"
         THEN Err("ProtocolViolation", key)
         ELSE Ok("not present")
    ELSE get_closure(key, w[1])

\* The getter of the property is called.
get ==
    /\ got = <<>>
    /\ got' = <<get_property(prop, wire)>>
    /\ UNCHANGED <<prop, wire>>
    /\ UNCHANGED <<discVars, evVars, filterVars, pathVars>>

-----------------------------------------------------------------------------
Init ==
    /\ InitDiscovery /\ InitEvents /\ my_name = "hci0" /\ InitFilterIdle
    /\ InitPathIdle /\ InitPropsIdle

Next == NextDiscovery

Spec == Init /\ [][Next]_vars

\* The runtime polls a spawned task that has been woken, and every method call
\* gets its reply or runs into TIMEOUT.
SpecFair ==
    /\ Spec
    /\ \A k \in Calls : WF_vars(StopDiscovery(k))
    /\ \A k \in Calls : WF_vars(\E ok \in BOOLEAN : StopDiscoveryReply(k, ok))

\* Every call that was made is polled until it returns: a free lock is
\* taken by a caller that waits for it, and every method call gets its reply
\* or runs into TIMEOUT.
SpecLive ==
    /\ Spec
    /\ \A k \in Calls : WF_vars(lock(k))
    /\ \A k \in Calls : WF_vars(check_slot(k))
    /\ \A k \in Calls : WF_vars(SetDiscoveryFilter(k))
    /\ \A k \in Calls : WF_vars(\E ok \in BOOLEAN : SetDiscoveryFilterReply(k, ok))
    /\ \A k \in Calls : WF_vars(StartDiscovery(k))
    /\ \A k \in Calls : WF_vars(\E ok \in BOOLEAN : StartDiscoveryReply(k, ok))

\* The event streams of one Adapter handle.
InitEv ==
    /\ InitDiscovery /\ InitEvents /\ my_name \in Adapters /\ InitFilterIdle
    /\ InitPathIdle /\ InitPropsIdle

SpecEvents == InitEv /\ [][NextEvents]_vars

\* The serialisation of a discovery filter.
InitFilter ==
    /\ InitDiscovery /\ InitEvents /\ my_name = "hci0"
    /\ filter \in DiscoveryFilters
    /\ dict = <<>>
    /\ InitPathIdle /\ InitPropsIdle

SpecFilter == InitFilter /\ [][filter_to_dict]_vars

\* The parsing of an object path.
InitPath ==
    /\ InitDiscovery /\ InitEvents /\ my_name = "hci0" /\ InitFilterIdle
    /\ in_path \in PathInputs
    /\ parsed = <<>>
    /\ InitNameIdle
    /\ InitPropsIdle

SpecPath == InitPath /\ [][parse_path]_vars

\* The construction of an Adapter handle and the parsing of its path.
InitName ==
    /\ InitDiscovery /\ InitEvents /\ my_name = "hci0" /\ InitFilterIdle
    /\ in_path = PREFIX /\ parsed = <<>>
    /\ new_name \in NameInputs
    /\ adapter = <<>> /\ parsed_back = <<>>
    /\ InitPropsIdle

SpecName == InitName /\ [][new \/ parse_adapter_path]_vars

\* The read of one property: the value is absent or one of the samples.
InitProps ==
    /\ InitDiscovery /\ InitEvents /\ my_name = "hci0" /\ InitFilterIdle
    /\ InitPathIdle
    /\ prop \in DeclaredKeys
    /\ wire \in {<<>>} \cup {<<v>> : v \in WireValues(prop)}
    /\ got = <<>>

SpecProps == InitProps /\ [][get]_vars

-----------------------------------------------------------------------------
(* Properties of the discovery sessions *)

OnAdapter(a) == {k \in Calls : adapter_name[k] = a}

\* A session is Active from the successful reply to StartDiscovery until its
\* handle is dropped.
Active(k) == startReply[k] = "ok" /\ term_tx[k] = "held"

\* The session's cleanup task has run to completion.
CleanedUp(k) == term_tx[k] = "dropped" /\ task[k] = "finished"

\* C1: in every reachable state each adapter name has at most one Active
\* discovery session, however many discover_devices calls run concurrently.
C1_AtMostOneActive ==
    \A a \in Adapters : Cardinality({k \in OnAdapter(a) : Active(k)}) <= 1

\* Two sessions were started on one adapter, one after the other, while a
\* third call on it was rejected.
C1_Witness ==
    \E a \in Adapters : \E j, k, l \in OnAdapter(a) :
        /\ Active(k)
        /\ startReply[j] = "ok" /\ term_tx[j] = "dropped"
        /\ result[l] = "AnotherDiscoveryInProgress"

\* C2: a discover_devices call that checks the adapter's entry while the
\* handle of an earlier session on that adapter is held fails with
\* AnotherDiscoveryInProgress; a call that checks it when every earlier
\* session on the adapter has been dropped and cleaned up passes the check,
\* and returns a handle when the daemon accepts both requests.
C2_SecondFailsThirdSucceeds ==
    [][\A k \in Calls :
        /\ (pc[k] = "check" /\ pc'[k] # "check"
            /\ \E j \in OnAdapter(adapter_name[k]) : term_tx[j] = "held")
           => result'[k] = "AnotherDiscoveryInProgress"
        /\ (pc[k] = "check" /\ pc'[k] # "check"
            /\ \A j \in OnAdapter(adapter_name[k]) \ {k} :
                   term_tx[j] = "none" \/ CleanedUp(j))
           => pc'[k] = "SetDiscoveryFilter" /\ result'[k] = "pending"
        /\ (pc'[k] = "returned" /\ setReply'[k] = "ok" /\ startReply'[k] = "ok")
           => result'[k] = "handle"
      ]_vars

\* The first call got a handle, the second was rejected, the handle was
\* dropped and cleaned up, and the third call got a handle.
C2_Witness ==
    \E a \in Adapters :
        /\ OnAdapter(a) = {1, 2, 3}
        /\ result[1] = "handle" /\ CleanedUp(1)
        /\ result[2] = "AnotherDiscoveryInProgress"
        /\ result[3] = "handle"

\* No reply on adapter a was an error and no handle on it has been dropped.
AllAcceptedNoneReleased(a) ==
    \A k \in OnAdapter(a) :
        /\ setReply[k] # "err" /\ startReply[k] # "err"
        /\ term_tx[k] # "dropped"

Returned(a) == {k \in OnAdapter(a) : pc[k] = "returned"}

\* C3: while the daemon accepts every request and the winning handle is not
\* released, of the calls made on one adapter that have returned exactly one
\* got a handle and every other one got AnotherDiscoveryInProgress.
C3_ExactlyOneWinner ==
    \A a \in Adapters :
        (AllAcceptedNoneReleased(a) /\ Returned(a) # {})
        => /\ Cardinality({k \in Returned(a) : result[k] = "handle"}) = 1
           /\ \A k \in Returned(a) :
                  result[k] \in {"handle", "AnotherDiscoveryInProgress"}

\* Three calls were in progress at once on one adapter; all have returned.
C3_Witness ==
    \E a \in Adapters :
        /\ AllAcceptedNoneReleased(a)
        /\ Cardinality(Returned(a)) = MaxCalls
        /\ Cardinality({k \in Returned(a) :
                            result[k] = "AnotherDiscoveryInProgress"}) = MaxCalls - 1

\* C4: once a handle is dropped its cleanup task eventually sends
\* StopDiscovery; a session sends it at most once, never while its handle is
\* held and never without a successful StartDiscovery.
C4_StopOnDrop ==
    /\ [](\A k \in Calls :
            /\ nStopDiscovery[k] <= 1
            /\ nStopDiscovery[k] >= 1
               => term_tx[k] = "dropped" /\ startReply[k] = "ok")
    /\ \A k \in Calls : (term_tx[k] = "dropped") ~> (nStopDiscovery[k] = 1)

\* One session was stopped while another one is still held and never stopped,
\* and a call whose start failed has not sent StopDiscovery.
C4_Witness ==
    \E j, k, l \in Calls :
        /\ term_tx[j] = "dropped" /\ nStopDiscovery[j] = 1
        /\ term_tx[k] = "held" /\ nStopDiscovery[k] = 0
        /\ (setReply[l] = "err" \/ startReply[l] = "err") /\ nStopDiscovery[l] = 0

\* The call awaits the reply to one of its two method calls.
InFlight(k) == pc[k] \in {"SetDiscoveryFilterWait", "StartDiscoveryWait"}

\* C5: the lock on the adapter-to-slot map is not held by a discover_devices
\* call while its SetDiscoveryFilter or StartDiscovery call is awaited.
C5_LockNotHeldAcrossAwait ==
    \A k \in Calls : InFlight(k) => mutex # k

\* C6: when StopDiscovery fails the cleanup task still finishes, no call's
\* position or result changes, and the adapter's entry no longer reads as in
\* progress, then and for as long as it stays in the map.
C6_StopFailureSwallowed ==
    [][\A k \in Calls :
        /\ (task[k] = "StopDiscovery" /\ stopReply'[k] = "err")
           => /\ task'[k] = "finished"
              /\ result' = result
              /\ pc' = pc
              /\ ~slot_in_progress(adapter_name[k])'
        /\ (stopReply[k] = "err" /\ discovery_slots[adapter_name[k]] = k)
           => ~slot_in_progress(adapter_name[k])
      ]_vars

\* After a failed StopDiscovery a later call on the adapter got a handle.
C6_Witness ==
    \E j, k \in Calls :
        /\ j < k /\ adapter_name[j] = adapter_name[k]
        /\ stopReply[j] = "err"
        /\ result[k] = "handle"

\* C7: a call sends SetDiscoveryFilter at most once and StartDiscovery at most
\* once; when either fails the call has returned that error, holds no handle
\* and has no cleanup task.
C7_ErrorReturnedNoRetry ==
    \A k \in Calls :
        /\ nSetDiscoveryFilter[k] <= 1
        /\ nStartDiscovery[k] <= 1
        /\ setReply[k] = "err"
           => /\ pc[k] = "returned" /\ result[k] = "SetDiscoveryFilterError"
              /\ nStartDiscovery[k] = 0
              /\ term_tx[k] = "none" /\ task[k] = "none"
        /\ startReply[k] = "err"
           => /\ pc[k] = "returned" /\ result[k] = "StartDiscoveryError"
              /\ term_tx[k] = "none" /\ task[k] = "none"

\* One call failed at SetDiscoveryFilter and another at StartDiscovery.
C7_Witness ==
    \E j, k \in Calls : setReply[j] = "err" /\ startReply[k] = "err"

\* C15: a call that passed the check sends SetDiscoveryFilter first and
\* StartDiscovery only after SetDiscoveryFilter was replied to with success;
\* it returns the handle only after both replies were successes, and never
\* sends StartDiscovery when SetDiscoveryFilter failed.
C15_FilterThenStart ==
    \A k \in Calls :
        /\ pc[k] \in {"SetDiscoveryFilterWait", "StartDiscovery"}
           => nSetDiscoveryFilter[k] = 1 /\ nStartDiscovery[k] = 0
        /\ pc[k] = "StartDiscovery" => setReply[k] = "ok"
        /\ nStartDiscovery[k] > 0
           => nSetDiscoveryFilter[k] = 1 /\ setReply[k] = "ok"
        /\ result[k] = "handle"
           => /\ nSetDiscoveryFilter[k] = 1 /\ nStartDiscovery[k] = 1
              /\ setReply[k] = "ok" /\ startReply[k] = "ok"
        /\ setReply[k] = "err" => nStartDiscovery[k] = 0

\* One call returned a handle and another failed at SetDiscoveryFilter.
C15_Witness ==
    \E j, k \in Calls :
        /\ result[j] = "handle" /\ nStartDiscovery[j] = 1
        /\ setReply[k] = "err" /\ pc[k] = "returned"

\* C16: the step that rejects a call with AnotherDiscoveryInProgress sends
\* no request and leaves every adapter's entry, every completion sender and
\* every session as they were; the rejected call has sent no
\* SetDiscoveryFilter, StartDiscovery or StopDiscovery and never does.
C16_RejectionChangesNothing ==
    [][\A k \in Calls :
        /\ (pc[k] = "check" /\ result'[k] = "AnotherDiscoveryInProgress")
           => /\ discovery_slots' = discovery_slots
              /\ done_tx' = done_tx
              /\ term_tx' = term_tx /\ task' = task
              /\ nSetDiscoveryFilter' = nSetDiscoveryFilter
              /\ nStartDiscovery' = nStartDiscovery
              /\ nStopDiscovery' = nStopDiscovery
              /\ \A j \in Calls \ {k} : pc'[j] = pc[j] /\ result'[j] = result[j]
        /\ result'[k] = "AnotherDiscoveryInProgress"
           => /\ nSetDiscoveryFilter'[k] = 0 /\ nStartDiscovery'[k] = 0
              /\ nStopDiscovery'[k] = 0
              /\ done_tx'[k] = "none" /\ term_tx'[k] = "none"
              /\ task'[k] = "none"
      ]_vars

\* A call was rejected on an adapter whose session is Active, while the
\* other adapter has a session too.
C16_Witness ==
    \E j, k, l \in Calls :
        /\ result[k] = "AnotherDiscoveryInProgress"
        /\ adapter_name[j] = adapter_name[k] /\ Active(j)
        /\ discovery_slots[adapter_name[k]] = j
        /\ adapter_name[l] # adapter_name[k] /\ Active(l)

\* The adapter's entry holds the receiver of a completion channel whose
\* sender is dropped.
Stale(a) ==
    discovery_slots[a] # NoCall /\ done_tx[discovery_slots[a]] = "dropped"

\* C17: a call that checks the adapter's entry when the entry's completion
\* signal has fired puts a fresh receiver of its own into the entry and goes
\* on to SetDiscoveryFilter as it does when there is no entry; it is not
\* rejected. A call is rejected only for an entry whose sender lives.
C17_StaleSlotReplaced ==
    [][\A k \in Calls :
        (pc[k] = "check" /\ pc'[k] # "check")
        => /\ (Stale(adapter_name[k]) \/ discovery_slots[adapter_name[k]] = NoCall)
              => /\ discovery_slots'[adapter_name[k]] = k
                 /\ done_tx'[k] = "alive"
                 /\ pc'[k] = "SetDiscoveryFilter"
                 /\ result'[k] = "pending"
                 /\ \A j \in Calls \ {k} : done_tx'[j] = done_tx[j]
           /\ result'[k] = "AnotherDiscoveryInProgress"
              => /\ discovery_slots[adapter_name[k]] # NoCall
                 /\ done_tx[discovery_slots[adapter_name[k]]] = "alive"
      ]_vars

\* The adapter's entry was stale twice and taken over each time: once left
\* by a session that was cleaned up, once by a call whose StartDiscovery
\* failed.
C17_Witness ==
    \E i, k, l \in Calls :
        /\ adapter_name[i] = adapter_name[l] /\ adapter_name[k] = adapter_name[l]
        /\ CleanedUp(i) /\ done_tx[i] = "dropped"
        /\ startReply[k] = "err" /\ done_tx[k] = "dropped"
        /\ discovery_slots[adapter_name[l]] = l /\ done_tx[l] = "alive"

\* C18: when the handle of a session is dropped the completion signal of the
\* adapter's entry has fired: the entry of a dropped session does not read
\* as in progress, before StopDiscovery is sent as after.
C18_SlotFinishedAtDrop ==
    \A k \in Calls : term_tx[k] = "dropped" => try_recv(k) = "ErrCanceled"

\* C18, amended: dropping the handle fires the termination signal that the
\* cleanup task awaits, and StopDiscovery is sent only after it has fired.
\* The completion signal of the adapter's entry is another one: it does not
\* fire at the drop nor while StopDiscovery is unsent or pending, but when
\* the cleanup task ends after the reply to StopDiscovery.
C18_SlotFinishedAfterStopReply ==
    [][\A k \in Calls :
        /\ (term_tx[k] = "held" /\ term_tx'[k] = "dropped")
           => /\ try_recv(k) = "OkNone" /\ try_recv(k)' = "OkNone"
              /\ nStopDiscovery'[k] = 0
        /\ nStopDiscovery'[k] > 0 => term_tx'[k] = "dropped"
        /\ (startReply'[k] = "ok" /\ stopReply'[k] = "none")
           => try_recv(k)' = "OkNone"
        /\ (startReply'[k] = "ok" /\ stopReply'[k] # "none")
           => try_recv(k)' = "ErrCanceled"
      ]_vars

\* A handle is dropped and StopDiscovery is pending; the adapter's entry
\* still reads as in progress and a call on the adapter was rejected.
C18_Witness ==
    \E j, k \in Calls :
        /\ term_tx[k] = "dropped" /\ task[k] = "StopDiscovery"
        /\ discovery_slots[adapter_name[k]] = k
        /\ slot_in_progress(adapter_name[k])
        /\ adapter_name[j] = adapter_name[k]
        /\ result[j] = "AnotherDiscoveryInProgress"

\* The requests that were sent to the object path p: the calls that sent
\* them, with the number of each request.
RequestsOn(p) ==
    {<<k, nSetDiscoveryFilter[k], nStartDiscovery[k], nStopDiscovery[k]>> :
        k \in {j \in Calls :
                  /\ adapter_name[j] # NoAdapter
                  /\ dbus_path(adapter_name[j]) = p
                  /\ nSetDiscoveryFilter[j] + nStartDiscovery[j]
                         + nStopDiscovery[j] > 0}}

\* C19: a step of a discover_devices call on one adapter, whether the call
\* succeeds or fails, changes neither the entry of another adapter nor the
\* requests sent to another adapter's path; and a call is rejected only when
\* the entry of its own adapter holds the receiver of a session made on that
\* adapter whose sender lives, whatever sessions other adapters have.
C19_AdaptersIndependent ==
    [][\A k \in Calls :
        /\ (pc'[k] # pc[k] \/ result'[k] # result[k])
           => \A a \in Adapters \ {adapter_name'[k]} :
                  /\ discovery_slots'[a] = discovery_slots[a]
                  /\ RequestsOn(dbus_path(a))' = RequestsOn(dbus_path(a))
        /\ (pc[k] = "check" /\ pc'[k] # "check")
           => (result'[k] = "AnotherDiscoveryInProgress"
               <=> \E j \in OnAdapter(adapter_name[k]) :
                       /\ discovery_slots[adapter_name[k]] = j
                       /\ done_tx[j] = "alive")
      ]_vars

\* While a session is Active on one adapter, a call on the other adapter
\* got a handle.
C19_Witness ==
    \E j, k \in Calls :
        /\ j < k /\ adapter_name[j] # adapter_name[k]
        /\ Active(j) /\ Active(k)
        /\ discovery_slots[adapter_name[j]] = j
        /\ discovery_slots[adapter_name[k]] = k

\* C20: when a call passes the check of the adapter's entry, and when it
\* sends SetDiscoveryFilter or StartDiscovery, every other session started on
\* that adapter has received the reply to its StopDiscovery, success or
\* failure: none has StopDiscovery unsent or pending.
C20_NoStartBeforeStopReply ==
    [][\A k \in Calls :
        (\/ pc[k] = "check" /\ pc'[k] = "SetDiscoveryFilter"
         \/ nSetDiscoveryFilter'[k] > nSetDiscoveryFilter[k]
         \/ nStartDiscovery'[k] > nStartDiscovery[k])
        => \A j \in OnAdapter(adapter_name[k]) \ {k} :
               startReply[j] = "ok"
               => /\ stopReply[j] # "none"
                  /\ task[j] = "finished"
      ]_vars

\* A call sent StartDiscovery on an adapter whose earlier session ended with
\* a successful StopDiscovery, after another call on it had been rejected.
C20_Witness ==
    \E j, k, l \in Calls :
        /\ j < l /\ l < k
        /\ adapter_name[j] = adapter_name[k] /\ adapter_name[l] = adapter_name[k]
        /\ stopReply[j] = "ok"
        /\ result[l] = "AnotherDiscoveryInProgress"
        /\ pc[k] = "StartDiscoveryWait"

\* The call's SetDiscoveryFilter or StartDiscovery failed.
Failed(k) == setReply[k] = "err" \/ startReply[k] = "err"

\* C21: a call whose SetDiscoveryFilter or StartDiscovery failed is not
\* Active, has no cleanup task and no StopDiscovery sent for it, and the
\* entry it left does not read as in progress; the call that next checks
\* that entry is not rejected and goes on to SetDiscoveryFilter.
C21_FailedCallLeavesIdle ==
    [][\A k \in Calls :
        /\ Failed(k)'
           => /\ ~Active(k)'
              /\ task'[k] = "none" /\ term_tx'[k] = "none"
              /\ nStopDiscovery'[k] = 0
              /\ discovery_slots'[adapter_name'[k]] = k
                 => ~slot_in_progress(adapter_name[k])'
        /\ \A j \in Calls :
               (/\ Failed(k)
                /\ pc[j] = "check" /\ pc'[j] # "check"
                /\ discovery_slots[adapter_name[j]] = k)
               => /\ result'[j] # "AnotherDiscoveryInProgress"
                  /\ pc'[j] = "SetDiscoveryFilter"
                  /\ discovery_slots'[adapter_name[j]] = j
      ]_vars

\* On one adapter a call failed at SetDiscoveryFilter, the next failed at
\* StartDiscovery and the one after that got a handle.
C21_Witness ==
    \E i, j, k \in Calls :
        /\ i < j /\ j < k
        /\ adapter_name[i] = adapter_name[k] /\ adapter_name[j] = adapter_name[k]
        /\ setReply[i] = "err" /\ startReply[j] = "err"
        /\ result[k] = "handle" /\ nStopDiscovery[k] = 0

\* C23: every discover_devices call that was made eventually returns, with
\* a handle or an error, and the lock on the map is only ever held by a call
\* that is on its way to returning: never by a call that has returned, by
\* a dropped handle or by a cleanup task.
C23_EveryCallReturns ==
    /\ [](\A k \in Calls :
            mutex = k => pc[k] \notin {"notcalled", "lock", "returned"})
    /\ \A k \in Calls : (pc[k] # "notcalled") ~> (pc[k] = "returned")

\* Two calls wait for the lock while the call that holds it awaits the
\* daemon.
C23_Witness ==
    \E i, j, k \in Calls :
        /\ i # j
        /\ pc[i] = "lock" /\ pc[j] = "lock"
        /\ mutex = k /\ InFlight(k)

-----------------------------------------------------------------------------
(* Properties of the event streams *)

\* The signals of hist that have been taken, pending being those that have not.
Processed(hist, pending) == SubSeq(hist, 1, Len(hist) - Len(pending))

\* What an object event is to yield on the stream of adapter name: the event
\* of the address for the path of a device of that adapter, nothing otherwise.
ExpectedDeviceEvent(name, evt) ==
    IF \E addr \in SampleAddresses : evt.object = Device_dbus_path(name, addr)
    THEN <<[type |-> evt.type,
            address |-> CHOOSE addr \in SampleAddresses :
                            evt.object = Device_dbus_path(name, addr)]>>
    ELSE <<>>

RECURSIVE ExpectedDeviceEvents(_, _)
ExpectedDeviceEvents(name, evts) ==
    IF evts = <<>> THEN <<>>
    ELSE ExpectedDeviceEvent(name, Head(evts))
             \o ExpectedDeviceEvents(name, Tail(evts))

AsChanged(name, props) ==
    [i \in 1..Len(props) |-> [name |-> name, property |-> props[i]]]

RECURSIVE ExpectedChanges(_, _)
ExpectedChanges(name, sigs) ==
    IF sigs = <<>> THEN <<>>
    ELSE AsChanged(name, from_prop_map(Head(sigs)))
             \o ExpectedChanges(name, Tail(sigs))

IsPrefix(s, t) == Len(s) <= Len(t) /\ SubSeq(t, 1, Len(s)) = s

\* C8: each object signal the stream of device_changes takes yields
\* Added(address) or Removed(address), as the signal is, when its path is the
\* path of the device of that address under the stream's adapter, and
\* nothing when the path is of another adapter or is no device path; the
\* stream yields nothing else.
C8_DeviceEventPerSignal ==
    [][/\ Len(objPending') < Len(objPending)
          => devEvents' = devEvents
                            \o ExpectedDeviceEvent(my_name, Head(objPending))
       /\ devEvents' # devEvents => Len(objPending') < Len(objPending)
      ]_vars

\* Of three signals taken, the one of a device of this adapter yielded an
\* event; the one of the other adapter's device and the one of a path that
\* is no device path yielded none.
C8_Witness ==
    /\ objPending = <<>>
    /\ Len(objHist) = 3
    /\ Len(devEvents) = 1
    /\ devEvents[1].address = <<0, 17, 34, 51, 68, 85>>
    /\ \E i \in 1..3 : \E a \in Adapters \ {my_name}, addr \in SampleAddresses :
           objHist[i].object = Device_dbus_path(a, addr)
    /\ \E i \in 1..3 : objHist[i].object \in OtherPaths

\* C9: the events of both streams are the events of the signals taken so
\* far, each once and in the order of the signals: for device_changes the
\* events yielded, for changes() those received, buffered or about to be
\* sent; once the consumer has dropped the stream of changes(), what it
\* received is a prefix of them.
C9_OnceInOrder ==
    /\ devEvents =
           ExpectedDeviceEvents(my_name, Processed(objHist, objPending))
    /\ rx_alive
       => changed \o chan \o AsChanged(my_name, fwd_props)
              = ExpectedChanges(my_name, Processed(propHist, propPending))
    /\ IsPrefix(changed, ExpectedChanges(my_name, propHist))

\* Three changes of two signals were received while a device event of a
\* third signal was yielded.
C9_Witness ==
    /\ Len(propHist) = 2
    /\ Len(changed) = 3
    /\ changed[1].property # changed[2].property
    /\ Len(devEvents) = 1

\* The AdapterChanged values a signal is to give on the stream of adapter
\* name: one per key of the change set that a property is declared for, in
\* the order of the change set.
ChangesOfSignal(name, cs) ==
    LET recognized == SelectSeq(cs, LAMBDA key :
                          \E p \in AdapterProperties : p[1] = key)
    IN  [i \in 1..Len(recognized) |->
            [name |-> name,
             property |-> (CHOOSE p \in AdapterProperties :
                               p[1] = recognized[i])[2]]]

RECURSIVE ChangesOfSignals(_, _)
ChangesOfSignals(name, sigs) ==
    IF sigs = <<>> THEN <<>>
    ELSE ChangesOfSignal(name, Head(sigs))
             \o ChangesOfSignals(name, Tail(sigs))

\* C14: while the stream of changes() is held, what was sent on it is, for
\* the signals the forwarding task took and in their order, one AdapterChanged
\* with the adapter's name per recognized key of the change set, in the order
\* of the keys, and nothing for an unrecognized key; the changes of the
\* signal being forwarded are a beginning of that signal's.
C14_ChangePerRecognizedKey ==
    rx_alive
    => LET sent == changed \o chan
           all == ChangesOfSignals(my_name, Processed(propHist, propPending))
       IN  /\ IsPrefix(sent, all)
           /\ Len(sent) + Len(fwd_props) = Len(all)

\* The signal with the keys Discovering, ExperimentalFeatures and Name was
\* forwarded: two changes, none for ExperimentalFeatures.
C14_Witness ==
    /\ rx_alive
    /\ propHist = << <<"Discovering", "ExperimentalFeatures", "Name">> >>
    /\ propPending = <<>> /\ fwd_props = <<>>
    /\ Len(changed \o chan) = 2
    /\ (changed \o chan)[2] = [name |-> my_name, property |-> "SystemName"]

\* C22: once a send of the forwarding task has failed, the stream of
\* changes() being dropped, the task has ended: it takes no further
\* property-changed signal from the subscription.
C22_TaskEndsAfterFailedSend ==
    [][send_err => propPending' = propPending \/ Len(propPending') > Len(propPending)
      ]_vars

-----------------------------------------------------------------------------
(* Properties of the discovery filter *)

OptionalKeys(f) ==
    (IF f.rssi # <<>> THEN {"RSSI"} ELSE {})
        \cup (IF f.pathloss # <<>> THEN {"Pathloss"} ELSE {})
        \cup (IF f.pattern # <<>> THEN {"Pattern"} ELSE {})

\* C10: the dictionary of a filter has the keys UUIDs, Transport,
\* DuplicateData and Discoverable, and RSSI, Pathloss and Pattern each exactly
\* when the field is set; the default filter gives UUIDs = [],
\* Transport = "auto", DuplicateData = true, Discoverable = false only.
C10_ToDictKeys ==
    dict # <<>>
    => /\ DOMAIN dict[1] =
              {"UUIDs", "Transport", "DuplicateData", "Discoverable"}
                  \cup OptionalKeys(filter)
       /\ filter = DefaultFilter
          => dict[1] = [UUIDs |-> <<>>, Transport |-> "auto",
                        DuplicateData |-> TRUE, Discoverable |-> FALSE]

\* A filter with RSSI zero, no path loss and the empty pattern was serialised.
C10_Witness ==
    /\ dict # <<>>
    /\ filter.rssi = <<0>> /\ filter.pathloss = <<>> /\ filter.pattern = <<"">>

\* The default filter was serialised.
C10_DefaultSerialised == dict # <<>> /\ filter = DefaultFilter

-----------------------------------------------------------------------------
(* Properties of the path parsers *)

\* C11: parse_dbus_path_prefix returns none for a path that does not start
\* with PREFIX; for one that does it returns a segment without '/' and a
\* remainder that is empty or starts with '/', which together with PREFIX
\* make up the path. parse_dbus_path returns that segment exactly when the
\* remainder is empty, none otherwise. No slice panics.
C11_ParsePath ==
    parsed # <<>>
    => LET r == parsed[1].prefix
           e == parsed[1].exact
       IN  IF ~starts_with(in_path, PREFIX)
           THEN r = <<>> /\ e = <<>>
           ELSE /\ r # <<>>
                /\ r[1][1] # Panic /\ r[1][2] # Panic
                /\ \A i \in 1..Len(r[1][1]) : r[1][1][i] # "/"
                /\ r[1][2] = <<>> \/ r[1][2][1] = "/"
                /\ PREFIX \o r[1][1] \o r[1][2] = in_path
                /\ e = IF r[1][2] = <<>> THEN <<r[1][1]>> ELSE <<>>

\* A path with a segment and a remainder of two characters was parsed.
C11_Witness ==
    /\ parsed # <<>>
    /\ parsed[1].prefix # <<>>
    /\ Len(parsed[1].prefix[1][1]) = 1
    /\ Len(parsed[1].prefix[1][2]) = 2
    /\ parsed[1].exact = <<>>

-----------------------------------------------------------------------------
(* Properties of the property getters *)

\* The value read cannot be parsed into the declared type.
Unparsable(key, v) ==
    CASE decode_kind(key) \in {"uuids", "filter_map"} ->
             \E i \in 1..Len(v) : v[i] \in {"?", "!"}
      [] decode_kind(key) \in {"parse", "from_dict"} -> v \in {"?", "!"}
      [] OTHER -> FALSE

\* The strings of the value read that cannot be parsed.
Offending(key, v) ==
    IF decode_kind(key) \in {"uuids", "filter_map"}
    THEN {v[i] : i \in 1..Len(v)} \cap {"?", "!"}
    ELSE {v} \cap {"?", "!"}

\* C12: for every declared property, a present value that cannot be parsed
\* into the declared type makes the getter return a decode error that names
\* the offending value, and no decoded result.
C12_DecodeErrorNamesValue ==
    (got # <<>> /\ wire # <<>> /\ Unparsable(prop, wire[1]))
    => /\ got[1].tag = "Err"
       /\ got[1].val[2] \in Offending(prop, wire[1])

C24_NameRoundTrip ==
    (adapter # <<>> /\ parsed_back # <<>>)
    => /\ parsed_back[1].adapter = <<new_name>>
       /\ parsed_back[1].device = <<>>

====
